---- MODULE Spec2Model ----
(***************************************************************************)
(* Real-time voice activity detection: packages/web/src/real-time-vad.ts.  *)
(*                                                                         *)
(* MicVAD / AudioNodeVAD wrap a FrameProcessor (the segmenter).  The       *)
(* worklet posts AudioFrame messages; port.onmessage starts one            *)
(* processFrame call per message; processFrame awaits                      *)
(* frameProcessor.process(frame) and then runs the user callbacks.         *)
(*                                                                         *)
(* FrameProcessor, validateOptions, Message and Silero live in ./_common,  *)
(* which is not part of the source slice: they are modelled from the       *)
(* design document (spec.md, sections 3, 4.1, 5 and 7).                    *)
(*                                                                         *)
(* Probabilities are integers in hundredths (0.35 is 35, 0.5 is 50).       *)
(*                                                                         *)
(* Spec is the constructed VAD with a model that never fails; FaultSpec    *)
(* adds a rejecting model.process and a throwing model.reset_state;        *)
(* ConfigSpec starts before the constructors, with any merged options.     *)
(***************************************************************************)
EXTENDS Integers, Sequences, FiniteSets, TLC

VARIABLES
    options,         \* this.options: the merged, validated RealTimeVADOptions
    listening,       \* MicVAD.listening
    frameProcessor,  \* AudioNodeVAD.frameProcessor: the segmenter's fields
    inflight,        \* processFrame calls suspended in `await frameProcessor.process`
    sink,            \* the callbacks of this.options invoked so far, in order
    frameNo,         \* number of frames handed to an active frameProcessor so far
    inferences,      \* number of model.process invocations issued so far
    resets,          \* number of model.reset_state invocations so far
    returned,        \* what frameProcessor.process returned for each processed frame
    thrown,          \* the errors thrown to the caller so far, in order
    phase            \* how far construction has come: "new", "MicVAD", "AudioNodeVAD", "ready"

vars == <<options, listening, frameProcessor, inflight, sink, frameNo, inferences,
          resets, returned, thrown, phase>>

----------------------------------------------------------------------------
(* Bounds of the model *)

MaxFrames == 5
MaxInFlight == 1
MaxRedemption == 2
MaxPad == 2
MaxSpeech == 3
MaxConfigFrames == 1
MaxFaults == 1

----------------------------------------------------------------------------
(* Options *)

\* validateOptions (./_common), from spec.md sections 3, 6 and 7
validateOptions(o) ==
    /\ o.frameSamples > 0
    /\ o.positiveSpeechThreshold \in 0..100
    /\ o.negativeSpeechThreshold \in 0..100
    /\ o.negativeSpeechThreshold <= o.positiveSpeechThreshold
    /\ o.redemptionFrames >= 0
    /\ o.preSpeechPadFrames >= 0
    /\ o.minSpeechFrames >= 1
    /\ o.maxSpeechFrames >= o.minSpeechFrames

\* the worked example of spec.md section 8
ExampleOptions ==
    [ frameSamples |-> 480,
      positiveSpeechThreshold |-> 50,
      negativeSpeechThreshold |-> 35,
      redemptionFrames |-> 8,
      preSpeechPadFrames |-> 1,
      minSpeechFrames |-> 3,
      maxSpeechFrames |-> 1000 ]

\* the option values explored: every valid combination of small frame counts,
\* and of a maxSpeechFrames no run reaches
SmallOptions ==
    { o \in [ frameSamples : {2},
              positiveSpeechThreshold : {50},
              negativeSpeechThreshold : {35},
              redemptionFrames : 0..MaxRedemption,
              preSpeechPadFrames : 0..MaxPad,
              minSpeechFrames : 1..MaxSpeech,
              maxSpeechFrames : (1..MaxSpeech) \cup {ExampleOptions.maxSpeechFrames} ] :
        validateOptions(o) }

ExampleProbs == <<10, 10, 60, 70, 80, 20, 10, 10, 10, 10, 10, 10, 10, 10, 10>>

----------------------------------------------------------------------------
(* The inputs: frames posted by the worklet, probabilities of the model *)

\* the values model.process may return for a frame that is not skipped
ProbLevels == {20, 35, 50}

\* Float32Array(buffer) of frameSamples samples: a buffer of zeros and a
\* buffer of audio that never touches zero
AudioFrames(n) ==
    { [i \in 1..n |-> 0],
      [i \in 1..n |-> 1] }

InputFrames ==
    IF options = ExampleOptions
    THEN { [i \in 1..options.frameSamples |-> 0] }
    ELSE AudioFrames(options.frameSamples)

\* number of frames processed in a run
FrameLimit == IF options = ExampleOptions THEN Len(ExampleProbs) ELSE MaxFrames

\* model.process: the k-th inference of the run
ModelOutputs(k) ==
    IF options = ExampleOptions THEN {ExampleProbs[k]} ELSE ProbLevels

SpeechProbabilities(p) == [notSpeech |-> 100 - p, isSpeech |-> p]

----------------------------------------------------------------------------
(* FrameProcessor (./_common), from spec.md section 4.1 *)

\* a RingPadBuffer that grows without evicting
PushPad_NoEviction(ring, frame, capacity) == Append(ring, frame)

\* RingPadBuffer push: the oldest frames are evicted over capacity
PushPad(ring, frame, capacity) ==
    LET s == Append(ring, frame)
    IN  IF Len(s) > capacity
        THEN SubSeq(s, Len(s) - capacity + 1, Len(s))
        ELSE s

RECURSIVE concatArrays(_)
\* the flat concatenation of the frames' samples
concatArrays(frames) ==
    IF frames = <<>> THEN <<>>
    ELSE Head(frames).samples \o concatArrays(Tail(frames))

\* the (ghost) arrival numbers of the frames of a payload
FrameIds(frames) == [i \in 1..Len(frames) |-> frames[i].id]

NewFrameProcessor ==
    [ active |-> FALSE,
      state |-> "Idle",
      redemptionCounter |-> 0,
      ringPad |-> <<>>,
      utterance |-> <<>>,
      accumulated |-> 0,
      failed |-> FALSE ]

\* step 1 of process: the frame enters the RingPadBuffer
ProcessEnter(fp, o, frame) ==
    [fp EXCEPT !.ringPad = PushPad(fp.ringPad, frame, o.preSpeechPadFrames)]

\* step 4, Idle
TransitionIdle(fp, o, frame, probs) ==
    IF probs.isSpeech >= o.positiveSpeechThreshold
    THEN [ fp |-> [fp EXCEPT !.state = "ActiveSpeech",
                             !.utterance = fp.ringPad \o <<frame>>,
                             !.redemptionCounter = 0,
                             !.accumulated = 1],
           res |-> [probs |-> probs, msg |-> "SpeechStart"] ]
    ELSE [ fp |-> fp, res |-> [probs |-> probs] ]

\* the end of an utterance that leaves the UtteranceBuffer as it was
EndUtterance_KeepsBuffer(fp, o, utterance, accumulated, probs) ==
    [ fp |-> [fp EXCEPT !.state = "Idle",
                        !.utterance = utterance,
                        !.redemptionCounter = 0,
                        !.accumulated = 0],
      reset |-> TRUE,
      res |-> IF accumulated >= o.minSpeechFrames
              THEN [ probs |-> probs, msg |-> "SpeechEnd",
                     audio |-> concatArrays(utterance),
                     src |-> FrameIds(utterance) ]
              ELSE [ probs |-> probs, msg |-> "VADMisfire" ] ]

\* the end of an utterance: SpeechEnd or VADMisfire, buffers cleared, model reset
EndUtterance(fp, o, utterance, accumulated, probs) ==
    [ fp |-> [fp EXCEPT !.state = "Idle",
                        !.utterance = <<>>,
                        !.redemptionCounter = 0,
                        !.accumulated = 0],
      reset |-> TRUE,
      res |-> IF accumulated >= o.minSpeechFrames
              THEN [ probs |-> probs, msg |-> "SpeechEnd",
                     audio |-> concatArrays(utterance),
                     src |-> FrameIds(utterance) ]
              ELSE [ probs |-> probs, msg |-> "VADMisfire" ] ]

\* step 4, ActiveSpeech
TransitionActive(fp, o, frame, probs) ==
    LET utterance == Append(fp.utterance, frame)
        accumulated == fp.accumulated + 1
    IN  IF Len(utterance) >= o.maxSpeechFrames
        THEN [ fp |-> [fp EXCEPT !.utterance = <<>>,
                                 !.accumulated = accumulated],
               res |-> [ probs |-> probs, msg |-> "SpeechSegment",
                         audio |-> concatArrays(utterance),
                         src |-> FrameIds(utterance) ] ]
        ELSE IF probs.isSpeech < o.negativeSpeechThreshold
        THEN IF fp.redemptionCounter + 1 >= o.redemptionFrames
             THEN EndUtterance(fp, o, utterance, accumulated, probs)
             ELSE [ fp |-> [fp EXCEPT !.utterance = utterance,
                                      !.accumulated = accumulated,
                                      !.redemptionCounter = fp.redemptionCounter + 1],
                    res |-> [probs |-> probs] ]
        ELSE [ fp |-> [fp EXCEPT !.utterance = utterance,
                                 !.accumulated = accumulated,
                                 !.redemptionCounter = 0],
               res |-> [probs |-> probs] ]

\* steps 3 and 4 of process, once the probability of the frame is known
ProcessTransition(fp, o, frame, probs) ==
    IF fp.state = "Idle"
    THEN TransitionIdle(fp, o, frame, probs)
    ELSE TransitionActive(fp, o, frame, probs)

\* a segmenter that goes on after a failed reset
Refuses_Never(fp) == FALSE

\* a segmenter whose model could not be reset refuses every further call
Refuses(fp) == fp.failed

FrameProcessor_pause(fp) == [fp EXCEPT !.active = FALSE]

FrameProcessor_resume(fp) == [fp EXCEPT !.active = TRUE]

----------------------------------------------------------------------------
(* AudioNodeVAD.processFrame *)

\* line 181: the silence flag of a frame
isEmpty(samples) == ~ (\E i \in DOMAIN samples : samples[i] = 0)

\* lines 183-185
FrameProcessedCalls(res, id) ==
    IF "probs" \in DOMAIN res
    THEN << [cb |-> "onFrameProcessed", frame |-> id, args |-> <<res.probs>>, src |-> <<>>] >>
    ELSE << >>

\* lines 186-207 with the SpeechEnd and VADMisfire cases exchanged
MessageCalls_EndAndMisfireExchanged(res, id) ==
    IF "msg" \notin DOMAIN res THEN << >>
    ELSE CASE res.msg = "SpeechStart" ->
                << [cb |-> "onSpeechStart", frame |-> id, args |-> <<>>, src |-> <<>>] >>
           [] res.msg = "VADMisfire" ->
                << [cb |-> "onSpeechEnd", frame |-> id, args |-> << <<>> >>, src |-> <<>>] >>
           [] res.msg = "SpeechEnd" ->
                << [cb |-> "onVADMisfire", frame |-> id, args |-> <<>>, src |-> <<>>] >>
           [] res.msg = "SpeechSegment" ->
                << [cb |-> "onSpeechSegment", frame |-> id, args |-> <<res.audio>>, src |-> res.src] >>
           [] OTHER -> << >>

\* lines 186-207 without the break of the VADMisfire case
MessageCalls_MisfireFallsThrough(res, id) ==
    IF "msg" \notin DOMAIN res THEN << >>
    ELSE CASE res.msg = "SpeechStart" ->
                << [cb |-> "onSpeechStart", frame |-> id, args |-> <<>>, src |-> <<>>] >>
           [] res.msg = "VADMisfire" ->
                << [cb |-> "onVADMisfire", frame |-> id, args |-> <<>>, src |-> <<>>],
                   [cb |-> "onSpeechEnd", frame |-> id, args |-> << <<>> >>, src |-> <<>>] >>
           [] res.msg = "SpeechEnd" ->
                << [cb |-> "onSpeechEnd", frame |-> id, args |-> <<res.audio>>, src |-> res.src] >>
           [] res.msg = "SpeechSegment" ->
                << [cb |-> "onSpeechSegment", frame |-> id, args |-> <<res.audio>>, src |-> res.src] >>
           [] OTHER -> << >>

\* lines 186-207 with the SpeechSegment case calling onSpeechEnd
MessageCalls_SegmentAsEnd(res, id) ==
    IF "msg" \notin DOMAIN res THEN << >>
    ELSE CASE res.msg = "SpeechStart" ->
                << [cb |-> "onSpeechStart", frame |-> id, args |-> <<>>, src |-> <<>>] >>
           [] res.msg = "VADMisfire" ->
                << [cb |-> "onVADMisfire", frame |-> id, args |-> <<>>, src |-> <<>>] >>
           [] res.msg = "SpeechEnd" ->
                << [cb |-> "onSpeechEnd", frame |-> id, args |-> <<res.audio>>, src |-> res.src] >>
           [] res.msg = "SpeechSegment" ->
                << [cb |-> "onSpeechEnd", frame |-> id, args |-> <<res.audio>>, src |-> res.src] >>
           [] OTHER -> << >>

\* lines 186-207 without the break of the SpeechStart case
MessageCalls_StartFallsThrough(res, id) ==
    IF "msg" \notin DOMAIN res THEN << >>
    ELSE CASE res.msg = "SpeechStart" ->
                << [cb |-> "onSpeechStart", frame |-> id, args |-> <<>>, src |-> <<>>],
                   [cb |-> "onVADMisfire", frame |-> id, args |-> <<>>, src |-> <<>>] >>
           [] res.msg = "VADMisfire" ->
                << [cb |-> "onVADMisfire", frame |-> id, args |-> <<>>, src |-> <<>>] >>
           [] res.msg = "SpeechEnd" ->
                << [cb |-> "onSpeechEnd", frame |-> id, args |-> <<res.audio>>, src |-> res.src] >>
           [] res.msg = "SpeechSegment" ->
                << [cb |-> "onSpeechSegment", frame |-> id, args |-> <<res.audio>>, src |-> res.src] >>
           [] OTHER -> << >>

\* lines 186-207
MessageCalls(res, id) ==
    IF "msg" \notin DOMAIN res THEN << >>
    ELSE CASE res.msg = "SpeechStart" ->
                << [cb |-> "onSpeechStart", frame |-> id, args |-> <<>>, src |-> <<>>] >>
           [] res.msg = "VADMisfire" ->
                << [cb |-> "onVADMisfire", frame |-> id, args |-> <<>>, src |-> <<>>] >>
           [] res.msg = "SpeechEnd" ->
                << [cb |-> "onSpeechEnd", frame |-> id, args |-> <<res.audio>>, src |-> res.src] >>
           [] res.msg = "SpeechSegment" ->
                << [cb |-> "onSpeechSegment", frame |-> id, args |-> <<res.audio>>, src |-> res.src] >>
           [] OTHER -> << >>

\* lines 183-207 with the switch placed before onFrameProcessed
Callbacks_MessageFirst(res, id) ==
    (IF "msg" \notin DOMAIN res THEN << >>
     ELSE << [cb |-> "on" \o res.msg, frame |-> id,
              args |-> IF "audio" \in DOMAIN res THEN <<res.audio>> ELSE << >>,
              src |-> IF "src" \in DOMAIN res THEN res.src ELSE << >>] >>)
    \o (IF "probs" \in DOMAIN res
        THEN << [cb |-> "onFrameProcessed", frame |-> id, args |-> <<res.probs>>, src |-> <<>>] >>
        ELSE << >>)

\* lines 183-207: what processFrame does once process has returned
Callbacks(res, id) == FrameProcessedCalls(res, id) \o MessageCalls(res, id)

\* the rest of a processFrame call from the point where the probability is known
Complete(fp, frame, probs) ==
    LET t == ProcessTransition(fp, options, frame, probs)
    IN  /\ frameProcessor' = t.fp
        /\ resets' = IF "reset" \in DOMAIN t THEN resets + 1 ELSE resets
        /\ returned' = Append(returned, [frame |-> frame.id, res |-> t.res])
        /\ sink' = sink \o Callbacks(t.res, frame.id)
        /\ thrown' = thrown

\* lines 180-182: a processFrame call up to its first suspension
processFrame(samples) ==
    LET frame == [id |-> frameNo + 1, samples |-> samples, isEmpty |-> isEmpty(samples)]
    IN  /\ IF Refuses(frameProcessor)
           THEN \* process throws: the call is rejected at line 182
                /\ frameNo' = frameNo + 1
                /\ thrown' = Append(thrown, [frame |-> frame.id, error |-> "ModelStateError"])
                /\ UNCHANGED <<frameProcessor, inflight, sink, inferences, resets, returned>>
           ELSE IF ~frameProcessor.active
           THEN \* process returns {}: probs and msg are undefined
                /\ sink' = sink \o Callbacks(<< >>, frame.id)
                /\ UNCHANGED <<frameProcessor, inflight, frameNo, inferences, resets,
                               returned, thrown>>
           ELSE LET fp == ProcessEnter(frameProcessor, options, frame)
                IN  /\ frameNo' = frameNo + 1
                    /\ IF frame.isEmpty
                       THEN \* the model is skipped: nothing suspends
                            /\ Complete(fp, frame, SpeechProbabilities(0))
                            /\ UNCHANGED <<inflight, inferences>>
                       ELSE /\ Cardinality(inflight) < MaxInFlight
                            /\ frameProcessor' = fp
                            /\ inferences' = inferences + 1
                            /\ inflight' = inflight \cup {[frame |-> frame, k |-> inferences + 1]}
                            /\ UNCHANGED <<sink, resets, returned, thrown>>
        /\ UNCHANGED <<options, listening, phase>>

----------------------------------------------------------------------------
(* Actions *)

\* lines 234-245: vadNode.port.onmessage
onmessage ==
    \/ /\ frameNo < FrameLimit
       /\ \E samples \in InputFrames : processFrame(samples)
    \/ \* any other message: default: break
       UNCHANGED vars

\* the inference of a suspended call resolves and the call runs to its end
InferenceResolved ==
    \E c \in inflight :
        \E p \in ModelOutputs(c.k) :
            /\ inflight' = inflight \ {c}
            /\ Complete(frameProcessor, c.frame, SpeechProbabilities(p))
            /\ UNCHANGED <<options, listening, frameNo, inferences, phase>>

\* lines 168-170 without the call of frameProcessor.pause
AudioNodeVAD_pause_Forgotten == UNCHANGED frameProcessor

\* lines 168-170
AudioNodeVAD_pause == frameProcessor' = FrameProcessor_pause(frameProcessor)

\* lines 172-174
AudioNodeVAD_start == frameProcessor' = FrameProcessor_resume(frameProcessor)

\* lines 135-138
pause ==
    /\ AudioNodeVAD_pause
    /\ listening' = FALSE
    /\ UNCHANGED <<options, inflight, sink, frameNo, inferences, resets, returned,
                   thrown, phase>>

\* lines 140-143
start ==
    /\ AudioNodeVAD_start
    /\ listening' = TRUE
    /\ UNCHANGED <<options, inflight, sink, frameNo, inferences, resets, returned,
                   thrown, phase>>

Init ==
    /\ options \in SmallOptions \cup {ExampleOptions}
    /\ listening = FALSE
    /\ frameProcessor = NewFrameProcessor
    /\ inflight = {}
    /\ sink = << >>
    /\ frameNo = 0
    /\ inferences = 0
    /\ resets = 0
    /\ returned = << >>
    /\ thrown = << >>
    /\ phase = "ready"

Next ==
    \/ onmessage
    \/ InferenceResolved
    \/ pause
    \/ start

Spec == Init /\ [][Next]_vars

----------------------------------------------------------------------------
(* Failures of the model: model.process rejects, model.reset_state throws *)

\* the results that carry the diagnostic of a failed inference
Diagnosed == {n \in 1..Len(returned) : "diagnostic" \in DOMAIN returned[n].res}

\* spec.md section 7, inference failure: the frame is treated as isSpeech = 0
\* and the failure is handed to the caller with the result
CompleteDiagnosed(fp, frame) ==
    LET t == ProcessTransition(fp, options, frame, SpeechProbabilities(0))
        res == [x \in DOMAIN t.res \cup {"diagnostic"} |->
                   IF x = "diagnostic" THEN "InferenceError" ELSE t.res[x]]
    IN  /\ frameProcessor' = t.fp
        /\ resets' = IF "reset" \in DOMAIN t THEN resets + 1 ELSE resets
        /\ returned' = Append(returned, [frame |-> frame.id, res |-> res])
        /\ sink' = sink \o Callbacks(res, frame.id)
        /\ thrown' = thrown

\* the inference of a suspended call fails
InferenceRejected ==
    /\ Cardinality(Diagnosed) < MaxFaults
    /\ \E c \in inflight :
         /\ inflight' = inflight \ {c}
         /\ CompleteDiagnosed(frameProcessor, c.frame)
    /\ UNCHANGED <<options, listening, frameNo, inferences, phase>>

\* spec.md section 7, state-reset failure: the call that ends the utterance
\* clears the buffers, the reset throws, and process throws a ModelStateError
\* instead of returning; line 182 rejects and no callback runs
CompleteResetFails(fp, frame, probs) ==
    LET t == ProcessTransition(fp, options, frame, probs)
    IN  /\ "reset" \in DOMAIN t
        /\ frameProcessor' = [t.fp EXCEPT !.state = fp.state, !.failed = TRUE]
        /\ resets' = resets + 1
        /\ thrown' = Append(thrown, [frame |-> frame.id, error |-> "ModelStateError"])
        /\ UNCHANGED <<sink, returned>>

\* model.reset_state throws at the end of an utterance
ResetFailed ==
    /\ \/ \E c \in inflight :
            \E p \in ModelOutputs(c.k) :
                /\ inflight' = inflight \ {c}
                /\ CompleteResetFails(frameProcessor, c.frame, SpeechProbabilities(p))
                /\ UNCHANGED <<frameNo, inferences>>
       \/ /\ frameNo < FrameLimit
          /\ ~Refuses(frameProcessor)
          /\ frameProcessor.active
          /\ \E samples \in InputFrames :
                LET frame == [id |-> frameNo + 1, samples |-> samples,
                              isEmpty |-> isEmpty(samples)]
                IN  /\ frame.isEmpty
                    /\ frameNo' = frameNo + 1
                    /\ CompleteResetFails(ProcessEnter(frameProcessor, options, frame),
                                          frame, SpeechProbabilities(0))
                    /\ UNCHANGED <<inflight, inferences>>
    /\ UNCHANGED <<options, listening, phase>>

NextFault ==
    \/ Next
    \/ InferenceRejected
    \/ ResetFailed

FaultSpec == Init /\ [][NextFault]_vars

----------------------------------------------------------------------------
(* Construction: MicVAD.new / AudioNodeVAD.new with any merged options *)

\* the merged options a caller can hand to a constructor, valid or not
CandidateOptions ==
    [ frameSamples : {-1, 0, 1, 2},
      positiveSpeechThreshold : {-1, 0, 50, 100, 101},
      negativeSpeechThreshold : {-1, 0, 35, 60, 100, 101},
      redemptionFrames : {-1, 0, 1},
      preSpeechPadFrames : {-1, 0, 1},
      minSpeechFrames : {0, 1, 2},
      maxSpeechFrames : {0, 1, 2} ]

\* a constructor whose validateOptions call throws
ConfigError ==
    /\ thrown' = Append(thrown, [frame |-> 0, error |-> "ConfigError"])
    /\ phase' = "rejected"

\* lines 109-111 without the validateOptions call
MicVAD_constructor_Unvalidated ==
    /\ phase = "new"
    /\ phase' = "MicVAD"
    /\ UNCHANGED <<options, listening, frameProcessor, inflight, sink, frameNo,
                   inferences, resets, returned, thrown>>

\* lines 103-111: new MicVAD({...defaultRealTimeVADOptions, ...options})
MicVAD_constructor ==
    /\ phase = "new"
    /\ IF validateOptions(options)
       THEN phase' = "MicVAD" /\ thrown' = thrown
       ELSE ConfigError
    /\ UNCHANGED <<options, listening, frameProcessor, inflight, sink, frameNo,
                   inferences, resets, returned>>

\* lines 152-166: new AudioNodeVAD(ctx, {...defaultRealTimeVADOptions, ...options}),
\* by MicVAD.init (line 131) or by the caller directly
AudioNodeVAD_constructor ==
    /\ phase \in {"new", "MicVAD"}
    /\ IF validateOptions(options)
       THEN phase' = "AudioNodeVAD" /\ thrown' = thrown
       ELSE ConfigError
    /\ UNCHANGED <<options, listening, frameProcessor, inflight, sink, frameNo,
                   inferences, resets, returned>>

\* lines 210-246: the FrameProcessor is constructed and onmessage installed
AudioNodeVAD_init ==
    /\ phase = "AudioNodeVAD"
    /\ phase' = "ready"
    /\ frameProcessor' = NewFrameProcessor
    /\ UNCHANGED <<options, listening, inflight, sink, frameNo, inferences, resets,
                   returned, thrown>>

InitConfig ==
    /\ options \in CandidateOptions
    /\ listening = FALSE
    /\ frameProcessor = NewFrameProcessor
    /\ inflight = {}
    /\ sink = << >>
    /\ frameNo = 0
    /\ inferences = 0
    /\ resets = 0
    /\ returned = << >>
    /\ thrown = << >>
    /\ phase = "new"

\* the messages of the worklet are handled once init has run
Running ==
    /\ phase = "ready"
    /\ Len(returned) < MaxConfigFrames
    /\ Next

NextConfig ==
    \/ MicVAD_constructor
    \/ AudioNodeVAD_constructor
    \/ AudioNodeVAD_init
    \/ Running

ConfigSpec == InitConfig /\ [][NextConfig]_vars

----------------------------------------------------------------------------
(* What the EventSink has seen: one observation per processed frame, in the *)
(* order the callbacks ran, and the lifecycle callback of each frame        *)

IsObservation(e) == e.cb = "onFrameProcessed"

Observations == SelectSeq(sink, IsObservation)

NObs == Len(Observations)

\* isSpeech of the i-th processed frame
Prob(i) == Observations[i].args[1].isSpeech

High(i) == Prob(i) >= options.positiveSpeechThreshold

Low(i) == Prob(i) < options.negativeSpeechThreshold

\* the lifecycle callbacks run for the i-th processed frame
EventsOf(i) ==
    SelectSeq(sink, LAMBDA e : ~IsObservation(e) /\ e.frame = Observations[i].frame)

MsgAt(i) == IF EventsOf(i) = << >> THEN "none" ELSE EventsOf(i)[1].cb

\* the audio argument of the lifecycle callback of the i-th processed frame
AudioAt(i) == EventsOf(i)[1].args[1]

Quiet(a, b) == \A t \in a..b : MsgAt(t) = "none"

\* the first j processed frames are: i-1 frames below the positive threshold,
\* frames i..m at or above it, then the redemptionFrames (at least one) frames
\* m+1..j below the negative threshold
OnsetThenRedemption(i, j) ==
    LET m == j - options.redemptionFrames
    IN  /\ options.redemptionFrames >= 1
        /\ i <= m
        /\ j <= NObs
        /\ \A t \in 1..(i - 1) : ~High(t)
        /\ \A t \in i..m : High(t)
        /\ \A t \in (m + 1)..j : Low(t)

\* no frame of the utterance i..j can fill the UtteranceBuffer
NoFlush(i, j) ==
    options.preSpeechPadFrames + (j - i + 1) < options.maxSpeechFrames

----------------------------------------------------------------------------
(* C1 *)

RoundTripEvents(i, j) ==
    /\ MsgAt(i) = "onSpeechStart"
    /\ Quiet(1, i - 1) /\ Quiet(i + 1, j - 1)
    /\ MsgAt(j) = "onSpeechEnd"
    /\ Len(EventsOf(j)) = 1
    /\ Len(AudioAt(j)) =
         (options.preSpeechPadFrames + (j - i + 1)) * options.frameSamples

ExampleExpected(t) ==
    IF t = 3 THEN "onSpeechStart" ELSE IF t = 13 THEN "onSpeechEnd" ELSE "none"

\* the worked example: with the example options and the probabilities
\* 0.1 0.1 0.6 0.7 0.8 0.2 0.1 x9, SpeechStart is emitted at index 2 and
\* SpeechEnd at index 12 (counted from 0) with 5760 samples
ExampleRun ==
    LET n == IF NObs < 13 THEN NObs ELSE 13
    IN  (options = ExampleOptions /\ \A t \in 1..n : Prob(t) = ExampleProbs[t])
        => /\ \A t \in 1..n : MsgAt(t) = ExampleExpected(t)
           /\ NObs >= 13 => Len(AudioAt(13)) = 5760

\* C1 as stated: an onset followed by exactly redemptionFrames frames below
\* the negative threshold, with at least minSpeechFrames frames from the
\* onset, gives SpeechStart then SpeechEnd(audio) with
\* len(audio) = (preSpeechPadFrames + N) * frameSamples; and the example
C1_RoundTrip_AsStated ==
    /\ \A i, j \in 1..NObs :
         (OnsetThenRedemption(i, j) /\ j - i + 1 >= options.minSpeechFrames)
         => RoundTripEvents(i, j)
    /\ ExampleRun

\* C1 amended: the same, provided at least preSpeechPadFrames frames were
\* processed before the onset, and the pad frames plus the N frames of the
\* utterance stay below maxSpeechFrames (no SpeechSegment is flushed)
C1_RoundTrip ==
    /\ \A i, j \in 1..NObs :
         ( /\ OnsetThenRedemption(i, j)
           /\ j - i + 1 >= options.minSpeechFrames
           /\ i - 1 >= options.preSpeechPadFrames
           /\ NoFlush(i, j) )
         => RoundTripEvents(i, j)
    /\ ExampleRun

\* the example has run to its SpeechEnd
C1_Witness ==
    /\ options = ExampleOptions
    /\ NObs >= 13
    /\ \A t \in 1..13 : Prob(t) = ExampleProbs[t]
    /\ MsgAt(13) = "onSpeechEnd"

\* a round trip with a pad frame under small options
C1_WitnessSmall ==
    /\ options # ExampleOptions
    /\ options.preSpeechPadFrames >= 1
    /\ \E i, j \in 1..NObs :
         /\ OnsetThenRedemption(i, j)
         /\ i - 1 >= options.preSpeechPadFrames
         /\ NoFlush(i, j)
         /\ MsgAt(j) = "onSpeechEnd"

----------------------------------------------------------------------------
(* C2 *)

\* a payload callback has run by the time the j-th processed frame is done
PayloadBy(j) ==
    \E t \in 1..j : MsgAt(t) \in {"onSpeechEnd", "onSpeechSegment"}

MisfireEvents(i, j) ==
    /\ MsgAt(i) = "onSpeechStart"
    /\ Quiet(1, i - 1) /\ Quiet(i + 1, j - 1)
    /\ MsgAt(j) = "onVADMisfire"
    /\ Len(EventsOf(j)) = 1
    /\ EventsOf(j)[1].args = << >>
    /\ ~PayloadBy(j)

\* C2 as stated: an onset followed by exactly redemptionFrames frames below
\* the negative threshold, with fewer than minSpeechFrames frames from the
\* onset, gives exactly SpeechStart then VADMisfire, and no audio payload
C2_Misfire_AsStated ==
    \A i, j \in 1..NObs :
        (OnsetThenRedemption(i, j) /\ j - i + 1 < options.minSpeechFrames)
        => MisfireEvents(i, j)

\* C2 amended: the same, provided the pad frames plus the frames of the
\* utterance stay below maxSpeechFrames (no SpeechSegment is flushed)
C2_Misfire ==
    \A i, j \in 1..NObs :
        ( /\ OnsetThenRedemption(i, j)
          /\ j - i + 1 < options.minSpeechFrames
          /\ NoFlush(i, j) )
        => MisfireEvents(i, j)

\* an onset after a pad frame was retracted as a misfire
C2_Witness ==
    /\ options.preSpeechPadFrames >= 1
    /\ \E i, j \in 1..NObs :
         /\ OnsetThenRedemption(i, j)
         /\ i > 1
         /\ NoFlush(i, j)
         /\ MsgAt(j) = "onVADMisfire"

----------------------------------------------------------------------------
(* C3 *)

\* the first j processed frames are: i-1 frames below the positive threshold,
\* then frames i..j all at or above it
SpeechRun(i, j) ==
    /\ i <= j
    /\ j <= NObs
    /\ \A t \in 1..(i - 1) : ~High(t)
    /\ \A t \in i..j : High(t)

SegmentsIn(a, b) == {t \in a..b : MsgAt(t) = "onSpeechSegment"}

ChunkingEvents(i, j) ==
    /\ MsgAt(i) = "onSpeechStart"
    /\ Quiet(1, i - 1)
    /\ \A t \in (i + 1)..j : MsgAt(t) \in {"none", "onSpeechSegment"}
    \* one SpeechSegment in every maxSpeechFrames consecutive frames after the onset
    /\ \A a \in (i + 1)..j :
         a + options.maxSpeechFrames - 1 <= j
         => Cardinality(SegmentsIn(a, a + options.maxSpeechFrames - 1)) = 1
    /\ \A t \in SegmentsIn(i, j) :
         /\ Len(EventsOf(t)) = 1
         /\ Len(AudioAt(t)) = options.maxSpeechFrames * options.frameSamples

----------------------------------------------------------------------------
(* Utterances, as the EventSink sees them *)

Ends(t) == MsgAt(t) \in {"onSpeechEnd", "onVADMisfire"}

Payload(t) == MsgAt(t) \in {"onSpeechEnd", "onSpeechSegment"}

\* the utterance opened by the SpeechStart of frame i is open when frame t arrives
OpenFrom(i, t) ==
    /\ MsgAt(i) = "onSpeechStart"
    /\ i < t
    /\ \A u \in (i + 1)..(t - 1) : ~Ends(u)

\* the frames are processed in the order they arrived: the i-th is frame i
InArrivalOrder == \A a \in 1..NObs : Observations[a].frame = a

\* the number of frames before frame i that the pad can hold
Pads(i) ==
    IF i - 1 < options.preSpeechPadFrames THEN i - 1 ELSE options.preSpeechPadFrames

\* the frames a, a+1, ..., b
Range(a, b) == [q \in 1..(b - a + 1) |-> a + q - 1]

----------------------------------------------------------------------------
(* C4 *)

\* C4: the first audio payload of an utterance begins with the (up to)
\* preSpeechPadFrames frames that preceded the onset frame, in arrival order,
\* followed by the onset frame exactly once
C4_PadCorrectness ==
    InArrivalOrder =>
        \A i, t \in 1..NObs :
            (OpenFrom(i, t) /\ Payload(t) /\ \A u \in (i + 1)..(t - 1) : ~Payload(u))
            => LET src == EventsOf(t)[1].src
                   j == Pads(i)
               IN  /\ Len(src) >= j + 1
                   /\ SubSeq(src, 1, j + 1) = Range(i - j, i)
                   /\ \A q \in (j + 2)..Len(src) : src[q] # i

----------------------------------------------------------------------------
(* C5 *)

\* frames a..b are a whole run of frames below the negative threshold, shorter
\* than redemptionFrames, inside an open utterance, and frame b+1 is at or
\* above the positive threshold
DipThenReaffirm(a, b) ==
    /\ a <= b
    /\ b + 1 <= NObs
    /\ \E i \in 1..(a - 1) : OpenFrom(i, a)
    /\ ~Low(a - 1)
    /\ \A t \in a..b : Low(t)
    /\ b - a + 1 < options.redemptionFrames
    /\ High(b + 1)

\* C5: such a dip ends nothing, and the next end of utterance comes only
\* after redemptionFrames consecutive frames below the negative threshold
C5_Reaffirmation ==
    \A a, b \in 1..NObs :
        (InArrivalOrder /\ DipThenReaffirm(a, b))
        => /\ \A t \in a..(b + 1) : ~Ends(t)
           /\ \A e \in (b + 2)..NObs :
                (Ends(e) /\ \A u \in (b + 2)..(e - 1) : ~Ends(u))
                => /\ e - options.redemptionFrames >= b + 1
                   /\ \A t \in (e - options.redemptionFrames + 1)..e : Low(t)

----------------------------------------------------------------------------
(* C6 *)

\* C6: no call begins while an earlier one is suspended, and the callbacks
\* follow the arrival order of the frames
C6_Serialized ==
    /\ \A c \in inflight : c.frame.id = frameNo
    /\ \A a, b \in 1..Len(sink) : a < b => sink[a].frame <= sink[b].frame

----------------------------------------------------------------------------
(* C7 *)

IsLifecycle(e) == ~IsObservation(e)

Lifecycle == SelectSeq(sink, IsLifecycle)

\* the last SpeechStart, SpeechEnd or VADMisfire before the q-th lifecycle callback
Boundary(q) ==
    LET before == {p \in 1..(q - 1) : Lifecycle[p].cb # "onSpeechSegment"}
    IN  IF before = {} THEN "none"
        ELSE Lifecycle[CHOOSE p \in before : \A r \in before : r <= p].cb

\* C7: a frame runs at most one lifecycle callback; SpeechStart comes only
\* when no utterance is open, SpeechSegment, SpeechEnd and VADMisfire only
\* when one is
C7_WellBracketed ==
    /\ \A a, b \in 1..Len(Lifecycle) : a < b => Lifecycle[a].frame # Lifecycle[b].frame
    /\ \A q \in 1..Len(Lifecycle) :
         IF Lifecycle[q].cb = "onSpeechStart"
         THEN Boundary(q) \in {"none", "onSpeechEnd", "onVADMisfire"}
         ELSE Boundary(q) = "onSpeechStart"

\* an utterance was started, flushed a segment, ended, and another one started
C7_Witness ==
    /\ Len(Lifecycle) >= 4
    /\ Lifecycle[1].cb = "onSpeechStart"
    /\ Lifecycle[2].cb = "onSpeechSegment"
    /\ Lifecycle[3].cb \in {"onSpeechEnd", "onVADMisfire"}
    /\ Lifecycle[4].cb = "onSpeechStart"

----------------------------------------------------------------------------
(* C8 *)

RECURSIVE PayloadsUpTo(_, _)
\* the frames of the payloads delivered after frame i up to frame t, in order
PayloadsUpTo(i, t) ==
    IF t <= i THEN << >>
    ELSE PayloadsUpTo(i, t - 1) \o (IF Payload(t) THEN EventsOf(t)[1].src ELSE << >>)

\* C8: the SpeechSegment payloads of an utterance followed by its SpeechEnd
\* payload are the pad frames followed by every frame from the onset through
\* the ending frame, each once, in arrival order
C8_PayloadConcatenation ==
    InArrivalOrder =>
        \A i, e \in 1..NObs :
            (OpenFrom(i, e) /\ MsgAt(e) = "onSpeechEnd")
            => PayloadsUpTo(i, e) = Range(i - Pads(i), e)

----------------------------------------------------------------------------
(* C9 *)

CallbackOf(msg) ==
    CASE msg = "SpeechStart" -> "onSpeechStart"
      [] msg = "VADMisfire" -> "onVADMisfire"
      [] msg = "SpeechEnd" -> "onSpeechEnd"
      [] msg = "SpeechSegment" -> "onSpeechSegment"

\* the callbacks run for frame f
CallsFor(f) == SelectSeq(sink, LAMBDA e : e.frame = f)

\* C9: every processed frame runs onFrameProcessed once, with its
\* probabilities, first; then at most the one callback of the message that
\* process returned, with the audio for SpeechEnd and SpeechSegment only;
\* and nothing else runs
C9_Dispatch ==
    /\ \A n \in 1..Len(returned) :
         LET r == returned[n].res
             calls == CallsFor(returned[n].frame)
         IN  /\ Len(calls) = IF "msg" \in DOMAIN r THEN 2 ELSE 1
             /\ calls[1].cb = "onFrameProcessed"
             /\ calls[1].args = <<r.probs>>
             /\ "msg" \in DOMAIN r =>
                  /\ calls[2].cb = CallbackOf(r.msg)
                  /\ calls[2].args = IF r.msg \in {"SpeechEnd", "SpeechSegment"}
                                     THEN <<r.audio>> ELSE << >>
    /\ \A a \in 1..Len(sink) : \E n \in 1..Len(returned) : returned[n].frame = sink[a].frame
    /\ \A n, k \in 1..Len(returned) :
         n < k => \A a, b \in 1..Len(sink) :
                     (sink[a].frame = returned[n].frame /\ sink[b].frame = returned[k].frame)
                     => a < b

\* a frame without a message, and an utterance started, flushed and ended
C9_Witness ==
    /\ \E n \in 1..Len(returned) : "msg" \notin DOMAIN returned[n].res
    /\ \A msg \in {"SpeechStart", "SpeechSegment", "SpeechEnd"} :
         \E n \in 1..Len(returned) :
             /\ "msg" \in DOMAIN returned[n].res
             /\ returned[n].res.msg = msg

----------------------------------------------------------------------------
(* C10 *)

\* the fields of the segmenter that a pause must keep
Segmenter(fp) ==
    <<fp.state, fp.redemptionCounter, fp.ringPad, fp.utterance, fp.accumulated>>

PauseKeepsState ==
    listening' # listening
    => /\ Segmenter(frameProcessor') = Segmenter(frameProcessor)
       /\ UNCHANGED <<sink, inflight, frameNo, inferences, resets, returned, thrown>>

\* C10 as stated: while paused nothing reaches the EventSink, and pause and
\* resume leave the segmenter as it was
C10_Pause_AsStated ==
    [][ /\ ~listening => sink' = sink
        /\ PauseKeepsState ]_vars

\* C10 amended: while paused no call begins (no frame is handed to process, no
\* inference is issued); the segmenter and the EventSink change only by the
\* completion of a call that was suspended when pause was called; pause and
\* resume leave the segmenter as it was
C10_Pause ==
    [][ /\ ~listening =>
             /\ frameNo' = frameNo
             /\ inferences' = inferences
             /\ inflight' \subseteq inflight
             /\ (sink' # sink \/ Segmenter(frameProcessor') # Segmenter(frameProcessor))
                  => inflight' # inflight
        /\ PauseKeepsState ]_vars

\* paused in the middle of an utterance, with its frames still buffered
C10_Witness ==
    /\ ~listening
    /\ ~frameProcessor.active
    /\ frameProcessor.state = "ActiveSpeech"
    /\ frameProcessor.redemptionCounter > 0
    /\ Len(frameProcessor.utterance) >= 2
    /\ inflight = {}

----------------------------------------------------------------------------
(* C11 *)

\* the configuration breaks one of the constraints
Violates(o) ==
    \/ o.positiveSpeechThreshold < 0 \/ o.positiveSpeechThreshold > 100
    \/ o.negativeSpeechThreshold < 0 \/ o.negativeSpeechThreshold > 100
    \/ o.negativeSpeechThreshold > o.positiveSpeechThreshold
    \/ o.frameSamples <= 0
    \/ o.minSpeechFrames < 1
    \/ o.redemptionFrames < 0
    \/ o.preSpeechPadFrames < 0
    \/ o.maxSpeechFrames < o.minSpeechFrames

\* C11: construction throws a ConfigError exactly when the configuration
\* breaks a constraint, and no frame is processed unless construction succeeded
C11_Construction ==
    /\ phase = "rejected" =>
         /\ Violates(options)
         /\ thrown = << [frame |-> 0, error |-> "ConfigError"] >>
    /\ phase \in {"MicVAD", "AudioNodeVAD", "ready"} =>
         /\ ~Violates(options)
         /\ thrown = << >>
    /\ (frameNo > 0 \/ inferences > 0 \/ sink # << >> \/ returned # << >>) =>
         /\ phase = "ready"
         /\ ~Violates(options)

\* a configuration whose only fault is negative > positive has been rejected
C11_Witness ==
    /\ phase = "rejected"
    /\ options.negativeSpeechThreshold > options.positiveSpeechThreshold
    /\ options.negativeSpeechThreshold <= 100
    /\ options.positiveSpeechThreshold >= 0
    /\ options.frameSamples > 0
    /\ options.redemptionFrames = 0
    /\ options.preSpeechPadFrames = 0
    /\ options.minSpeechFrames >= 1
    /\ options.maxSpeechFrames >= options.minSpeechFrames

\* a configuration with redemptionFrames = 0 and preSpeechPadFrames = 0 has
\* been accepted and has processed a frame
C11_Accepted ==
    /\ phase = "ready"
    /\ options.redemptionFrames = 0
    /\ options.preSpeechPadFrames = 0
    /\ returned # << >>

----------------------------------------------------------------------------
(* C12 *)

\* the frame f, handled in ActiveSpeech, is in the utterance or in the payload
\* that the call returned
Appended(fq, res, f) ==
    \/ fq.utterance # << >> /\ fq.utterance[Len(fq.utterance)].id = f
    \/ "src" \in DOMAIN res /\ res.src # << >> /\ res.src[Len(res.src)] = f
    \/ "msg" \in DOMAIN res /\ res.msg = "VADMisfire"

\* the frame counted as one more frame below the negative threshold
CountedLow(fp, fq, res) ==
    \/ /\ fq.state = "ActiveSpeech"
       /\ fq.redemptionCounter = fp.redemptionCounter + 1
    \/ /\ fq.state = "Idle"
       /\ "msg" \in DOMAIN res
       /\ res.msg \in {"SpeechEnd", "VADMisfire"}
       /\ fp.redemptionCounter + 1 >= options.redemptionFrames

\* the step from fp to fq handled frame f, with result res, as a frame with
\* isSpeech = 0
HandledAsNonSpeech(fp, fq, res, f) ==
    /\ res.probs = SpeechProbabilities(0)
    /\ fp.state = "Idle" =>
          /\ "msg" \notin DOMAIN res
          /\ fq.state = "Idle"
          /\ fq.utterance = << >>
          /\ fq.redemptionCounter = fp.redemptionCounter
    /\ (fp.state = "ActiveSpeech" /\ 0 < options.negativeSpeechThreshold) =>
          /\ Appended(fq, res, f)
          /\ CountedLow(fp, fq, res)

\* C12: a call whose inference failed handles its frame as a frame with
\* isSpeech = 0 (pad buffer, utterance, redemption), returns the diagnostic,
\* throws nothing, aborts no utterance and leaves the segmenter in service
C12_InferenceFailure ==
    [][ Cardinality(Diagnosed') > Cardinality(Diagnosed) =>
          LET r == returned'[Len(returned')]
          IN  /\ Len(returned') = Len(returned) + 1
              /\ r.res.diagnostic = "InferenceError"
              /\ thrown' = thrown
              /\ frameProcessor'.failed = frameProcessor.failed
              /\ frameProcessor'.active = frameProcessor.active
              /\ Len(sink') > Len(sink)
              /\ sink'[Len(sink) + 1].cb = "onFrameProcessed"
              /\ sink'[Len(sink) + 1].frame = r.frame
              /\ frameProcessor'.ringPad = frameProcessor.ringPad
              /\ (r.frame = frameNo /\ options.preSpeechPadFrames >= 1) =>
                    frameProcessor.ringPad[Len(frameProcessor.ringPad)].id = r.frame
              /\ HandledAsNonSpeech(frameProcessor, frameProcessor', r.res, r.frame) ]_vars

----------------------------------------------------------------------------
(* C13 *)

\* C13: when the reset fails the call throws a ModelStateError and the
\* segmenter stays failed; every call that begins afterwards is refused with
\* the same error: no inference, no change of the buffers, the counter or
\* the state, no callback
C13_ResetFailure ==
    [][ /\ frameProcessor.failed => frameProcessor'.failed
        /\ (~frameProcessor.failed /\ frameProcessor'.failed) =>
              /\ resets' = resets + 1
              /\ Len(thrown') = Len(thrown) + 1
              /\ thrown'[Len(thrown')].error = "ModelStateError"
              /\ sink' = sink
        /\ (frameProcessor.failed /\ frameNo' # frameNo) =>
              /\ thrown' = Append(thrown, [frame |-> frameNo', error |-> "ModelStateError"])
              /\ inferences' = inferences
              /\ inflight' = inflight
              /\ resets' = resets
              /\ frameProcessor' = frameProcessor
              /\ sink' = sink
              /\ returned' = returned ]_vars

\* the reset failed at the end of an utterance and two later frames were refused
C13_Witness ==
    /\ frameProcessor.failed
    /\ Len(thrown) = 3
    /\ \A n \in 1..3 : thrown[n].error = "ModelStateError"
    /\ thrown[2].frame = thrown[1].frame + 1
    /\ thrown[3].frame = thrown[1].frame + 2
    /\ inflight = {}

----------------------------------------------------------------------------
(* C14 *)

\* C14 as stated: between process calls the UtteranceBuffer is non-empty
\* exactly when the state is ActiveSpeech
C14_UtteranceIffActive_AsStated ==
    inflight = {} =>
        (frameProcessor.utterance # << >> <=> frameProcessor.state = "ActiveSpeech")

\* C14 amended: a non-empty UtteranceBuffer means ActiveSpeech, and in
\* ActiveSpeech the buffer is empty only when the last call returned the
\* SpeechSegment of a maxSpeechFrames flush
C14_UtteranceIffActive ==
    /\ frameProcessor.utterance # << >> => frameProcessor.state = "ActiveSpeech"
    /\ (frameProcessor.state = "ActiveSpeech" /\ frameProcessor.utterance = << >>) =>
         /\ returned # << >>
         /\ "msg" \in DOMAIN returned[Len(returned)].res
         /\ returned[Len(returned)].res.msg = "SpeechSegment"
    /\ ( /\ returned # << >>
         /\ "msg" \in DOMAIN returned[Len(returned)].res
         /\ returned[Len(returned)].res.msg = "SpeechSegment" ) =>
         /\ frameProcessor.state = "ActiveSpeech"
         /\ frameProcessor.utterance = << >>

\* after a flush: ActiveSpeech with an empty UtteranceBuffer, and the
\* utterances before it started and ended
C14_Witness ==
    /\ inflight = {}
    /\ frameProcessor.state = "ActiveSpeech"
    /\ frameProcessor.utterance = << >>
    /\ \E q \in 1..Len(Lifecycle) : Lifecycle[q].cb \in {"onSpeechEnd", "onVADMisfire"}

----------------------------------------------------------------------------
(* C15 *)

\* the number of consecutive frames below the negative threshold that end
\* at the most recently processed frame
TrailingLows == Cardinality({t \in 1..NObs : \A u \in t..NObs : Low(u)})

\* C15: after a frame at or above the positive threshold the redemption
\* counter is 0, and in ActiveSpeech the counter is the number of consecutive
\* frames below the negative threshold ending at the most recent frame
C15_RedemptionCounter ==
    (InArrivalOrder /\ NObs >= 1) =>
        /\ High(NObs) => frameProcessor.redemptionCounter = 0
        /\ frameProcessor.state = "ActiveSpeech" =>
             frameProcessor.redemptionCounter = TrailingLows

----------------------------------------------------------------------------
(* C16 *)

\* the step completed a call that returned SpeechEnd or VADMisfire
UtteranceEnded ==
    /\ Len(returned') = Len(returned) + 1
    /\ "msg" \in DOMAIN returned'[Len(returned')].res
    /\ returned'[Len(returned')].res.msg \in {"SpeechEnd", "VADMisfire"}

\* C16: reset_state is invoked by exactly the calls that return SpeechEnd or
\* VADMisfire, once, and no inference is under way when it is invoked
C16_ResetOnUtteranceEnd ==
    [][ /\ resets' = IF UtteranceEnded THEN resets + 1 ELSE resets
        /\ resets' # resets => inflight' = {} ]_vars

----------------------------------------------------------------------------
(* C17 *)

\* the frame carries no audio
AllZero(samples) == \A i \in DOMAIN samples : samples[i] = 0

\* the frames that the wrapper has flagged and that are still held somewhere
FramesHeld ==
    {c.frame : c \in inflight}
    \cup {frameProcessor.ringPad[n] : n \in 1..Len(frameProcessor.ringPad)}
    \cup {frameProcessor.utterance[n] : n \in 1..Len(frameProcessor.utterance)}

\* C17: a frame is flagged silent exactly when all of its samples are zero,
\* and every frame with a non-zero sample is passed to the model
C17_SilenceFlag ==
    /\ \A f \in FramesHeld : f.isEmpty = AllZero(f.samples)
    /\ \A f \in FramesHeld :
         ~AllZero(f.samples) =>
            \/ \E c \in inflight : c.frame = f
            \/ \E n \in 1..Len(returned) :
                  returned[n].frame = f.id /\ returned[n].res.probs.isSpeech \in ProbLevels

----------------------------------------------------------------------------
(* C18 *)

\* C18: a frame either goes to the model, not flagged silent, or is flagged
\* silent and handled at once without the model as a frame with isSpeech = 0:
\* pushed into the RingPadBuffer, no SpeechStart in Idle, appended and counted
\* toward redemption in ActiveSpeech
C18_SilentFrame ==
    [][ frameNo' # frameNo =>
          \/ /\ inferences' = inferences + 1
             /\ \E c \in inflight' \ inflight : ~c.frame.isEmpty
          \/ /\ inferences' = inferences
             /\ inflight' = inflight
             /\ Len(returned') = Len(returned) + 1
             /\ returned'[Len(returned')].frame = frameNo'
             /\ options.preSpeechPadFrames >= 1 =>
                   /\ frameProcessor'.ringPad # << >>
                   /\ frameProcessor'.ringPad[Len(frameProcessor'.ringPad)].id = frameNo'
                   /\ frameProcessor'.ringPad[Len(frameProcessor'.ringPad)].isEmpty
             /\ HandledAsNonSpeech(frameProcessor, frameProcessor',
                                   returned'[Len(returned')].res, frameNo') ]_vars

----------------------------------------------------------------------------
(* C19 *)

\* the number of frames the RingPadBuffer should hold
PadFill ==
    IF frameNo < options.preSpeechPadFrames THEN frameNo ELSE options.preSpeechPadFrames

\* C19: the RingPadBuffer holds at most preSpeechPadFrames frames, and they
\* are the most recently processed frames in arrival order, whatever the
\* state and whatever events were emitted
C19_RingPadBuffer ==
    /\ Len(frameProcessor.ringPad) <= options.preSpeechPadFrames
    /\ FrameIds(frameProcessor.ringPad) = Range(frameNo - PadFill + 1, frameNo)

\* the buffer is full, frames were evicted, and an utterance started, was
\* flushed and ended
C19_Witness ==
    /\ options.preSpeechPadFrames >= 1
    /\ frameNo > options.preSpeechPadFrames + 1
    /\ Len(frameProcessor.ringPad) = options.preSpeechPadFrames
    /\ \E q \in 1..Len(Lifecycle) : Lifecycle[q].cb = "onSpeechSegment"
    /\ \E q \in 1..Len(Lifecycle) : Lifecycle[q].cb \in {"onSpeechEnd", "onVADMisfire"}

----------------------------------------------------------------------------
(* C20 *)

\* the number of frames below the negative threshold that end an utterance
RedemptionWindow == IF options.redemptionFrames = 0 THEN 1 ELSE options.redemptionFrames

\* C20: once an utterance is open, redemptionFrames frames below the
\* negative threshold in a row end it with SpeechEnd or VADMisfire, whether
\* or not a maxSpeechFrames flush falls among them
C20_UtteranceEnds ==
    InArrivalOrder =>
        \A i, a, b \in 1..NObs :
            ( /\ OpenFrom(i, a)
              /\ \A t \in a..b : Low(t)
              /\ b - a + 1 >= RedemptionWindow )
            => \E e \in a..b : Ends(e)

====
